---- MODULE Spec2Model ----
(***************************************************************************)
(* Model of the JobVista-Pro backend (src/app.py): one SQLite table        *)
(* "jobs", a seeder, the listing handler GET /api/jobs and the             *)
(* application counter POST /api/jobs/<id>/apply, served by a threaded     *)
(* development server.                                                     *)
(*                                                                         *)
(* Text that the code inspects character by character (title, location,    *)
(* posted_date and the title/location/remote query parameters) is a        *)
(* sequence of one-character strings.  Text that is only compared for      *)
(* equality (experience, job_type, company, salary) is a TLA+ string.      *)
(* An optional value (a nullable column, a query parameter that may be     *)
(* missing) is a sequence of length at most one: <<>> is NULL / missing    *)
(* and <<v>> is the value v.                                               *)
(* The columns tags, description and benefits are written once by the      *)
(* seeder and copied to the response; nothing else reads them and they     *)
(* are not part of the model.                                              *)
(***************************************************************************)
EXTENDS Integers, Sequences, FiniteSets, TLC

VARIABLES
    phase,        \* "init", "seed", "serving": position of the __main__ block
    tableExists,  \* the jobs table has been created
    jobs,         \* committed rows of the table, in rowid order
    writer,       \* sequence of length <= 1: the connection holding SQLite's write lock
    txn,          \* txn[t]: rows as modified by t's open transaction, <<>> if none
    pc,           \* pc[t]: "idle", "update", "commit", "done": position of worker t
    req,          \* req[t]: the request worker t is serving
    resp,         \* resp[t]: the response worker t has returned and not yet sent
    applied,      \* history: applied[id] = number of apply requests on id answered 200
    openConns,    \* number of connections made by get_db() that are not closed yet
    reseeded      \* history: seed_sample_data has run on a table that was not empty

vars == <<phase, tableExists, jobs, writer, txn, pc, req, resp, applied,
          openConns, reseeded>>

\* ---------------------------------------------------------------- bounds
NumThreads == 2
MaxApply == 2
MaxOpen == 2

Threads == 1..NumThreads

\* ------------------------------------------------------- optional values
None == <<>>
Some(v) == <<v>>
IsSome(o) == Len(o) = 1
Val(o) == o[1]

\* ------------------------------------------------------------------ text
UpperChars == <<"A", "B", "C", "D", "E", "F", "G", "H", "I", "J", "K", "L", "M",
                "N", "O", "P", "Q", "R", "S", "T", "U", "V", "W", "X", "Y", "Z">>
LowerChars == <<"a", "b", "c", "d", "e", "f", "g", "h", "i", "j", "k", "l", "m",
                "n", "o", "p", "q", "r", "s", "t", "u", "v", "w", "x", "y", "z">>
\* The characters of the model in code point order.
CodePoints == <<" ", ",", "-", "0", "1", "2", "3", "4", "5", "6", "7", "8", "9">>
              \o UpperChars \o LowerChars

Ord(c) == CHOOSE i \in 1..Len(CodePoints) : CodePoints[i] = c

\* str.lower() on one character
LowerChar(c) ==
    IF \E i \in 1..Len(UpperChars) : UpperChars[i] = c
    THEN LowerChars[CHOOSE i \in 1..Len(UpperChars) : UpperChars[i] = c]
    ELSE c

\* str.lower()
Lower(s) == [i \in 1..Len(s) |-> LowerChar(s[i])]

\* Python's  a in b  on strings
Contains(a, b) ==
    \E k \in 0..(Len(b) - Len(a)) : \A i \in 1..Len(a) : b[k + i] = a[i]

\* a < b in SQLite's BINARY collation (byte-wise, shorter prefix first)
TextLess(a, b) ==
    \E k \in 0..Len(a) :
        /\ k <= Len(b)
        /\ \A i \in 1..k : a[i] = b[i]
        /\ \/ k = Len(a) /\ k < Len(b)
           \/ k < Len(a) /\ k < Len(b) /\ Ord(a[k + 1]) < Ord(b[k + 1])

\* a <= b in SQLite's sort order of a TEXT column: NULL sorts before every text
SqlLeq(a, b) ==
    IF ~IsSome(a) THEN TRUE
    ELSE IF ~IsSome(b) THEN FALSE
    ELSE Val(a) = Val(b) \/ TextLess(Val(a), Val(b))

\* ------------------------------------------------------------- seed data
\* The literal list of seed_sample_data, as the values bound to the INSERT
\* (True / False are bound as the integers 1 / 0).
sample_jobs == <<
    [title       |-> <<"S", "e", "n", "i", "o", "r", " ", "S", "o", "f", "t", "w", "a",
                       "r", "e", " ", "E", "n", "g", "i", "n", "e", "e", "r">>,
     company     |-> "META",
     location    |-> <<"B", "e", "n", "g", "a", "l", "u", "r", "u", ",", " ", "K", "A">>,
     salary      |-> Some("$120,000 - $180,000"),
     experience  |-> Some("senior"),
     job_type    |-> Some("full time"),
     remote      |-> Some(1),
     posted_date |-> Some(<<"2", "0", "2", "4", "-", "0", "8", "-", "1", "0">>)],
    [title       |-> <<"F", "r", "o", "n", "t", "e", "n", "d", " ", "D", "e", "v", "e",
                       "l", "o", "p", "e", "r">>,
     company     |-> "GOOGLE",
     location    |-> <<"N", "e", "w", " ", "D", "e", "l", "h", "i", ",", " ", "D", "L">>,
     salary      |-> Some("$90,000 - $130,000"),
     experience  |-> Some("mid"),
     job_type    |-> Some("full time"),
     remote      |-> Some(0),
     posted_date |-> Some(<<"2", "0", "2", "4", "-", "0", "8", "-", "1", "2">>)],
    [title       |-> <<"D", "e", "v", "O", "p", "s", " ", "E", "n", "g", "i", "n", "e",
                       "e", "r">>,
     company     |-> "MICROSOFT",
     location    |-> <<"N", "e", "w", " ", "D", "e", "l", "h", "i", ",", " ", "D", "L">>,
     salary      |-> Some("$100,000 - $150,000"),
     experience  |-> Some("mid"),
     job_type    |-> Some("contract"),
     remote      |-> Some(1),
     posted_date |-> Some(<<"2", "0", "2", "4", "-", "0", "8", "-", "1", "1">>)] >>

\* ------------------------------------------------------- table operations
RowIds(rows) == {rows[i].id : i \in 1..Len(rows)}

RowOf(rows, id) == rows[CHOOSE i \in 1..Len(rows) : rows[i].id = id]

\* id INTEGER PRIMARY KEY AUTOINCREMENT: one more than the largest id so far
\* (rows are never deleted, so the largest id so far is the largest id stored)
NextId(rows) ==
    IF Len(rows) = 0 THEN 1
    ELSE 1 + CHOOSE m \in RowIds(rows) : \A i \in RowIds(rows) : i <= m

\* applications_count INTEGER DEFAULT 0
DefaultCount == 0

\* INSERT INTO jobs (title, ..., posted_date) VALUES (?, ..., ?)
InsertJob(rows, job) ==
    Append(rows, [id                 |-> NextId(rows),
                  title              |-> job.title,
                  company            |-> job.company,
                  location           |-> job.location,
                  salary             |-> job.salary,
                  experience         |-> job.experience,
                  job_type           |-> job.job_type,
                  remote             |-> job.remote,
                  posted_date        |-> job.posted_date,
                  applications_count |-> DefaultCount])

RECURSIVE InsertAll(_, _)
InsertAll(rows, list) ==
    IF list = <<>> THEN rows
    ELSE InsertAll(InsertJob(rows, Head(list)), Tail(list))

\* SELECT COUNT(*) FROM jobs ... == 0
SeedAlways(rows) == TRUE
SeedNeeded(rows) == Len(rows) = 0

\* The body of seed_sample_data on the table's rows.
SeedRows(rows) == IF SeedNeeded(rows) THEN InsertAll(rows, sample_jobs) ELSE rows

\* SELECT id FROM jobs WHERE id = ? ... fetchone() is a row
ExistsAlways(rows, id) == TRUE
JobExists(rows, id) == id \in RowIds(rows)

\* UPDATE jobs SET applications_count = applications_count + 1 WHERE id = ?
IncrementAll(rows, id) ==
    [i \in 1..Len(rows) |->
        [rows[i] EXCEPT !.applications_count = rows[i].applications_count + 1]]
IncrementBy2(rows, id) ==
    [i \in 1..Len(rows) |->
        IF rows[i].id = id
        THEN [rows[i] EXCEPT !.applications_count = rows[i].applications_count + 2]
        ELSE rows[i]]
IncrementCount(rows, id) ==
    [i \in 1..Len(rows) |->
        IF rows[i].id = id
        THEN [rows[i] EXCEPT !.applications_count = rows[i].applications_count + 1]
        ELSE rows[i]]

\* ------------------------------------------------------------- listing
\* request.args.get(name, default)
ArgGet(arg, default) == IF IsSome(arg) THEN Val(arg) ELSE default

\* bool(row['remote'])
TruthyWhenNotNull(o) == IsSome(o)
Truthy(o) == IsSome(o) /\ Val(o) # 0

\* The dict built from one row (lines 118-132).
RowToJob(row) ==
    [id                 |-> row.id,
     title              |-> row.title,
     company            |-> row.company,
     location           |-> row.location,
     salary             |-> row.salary,
     experience         |-> row.experience,
     job_type           |-> row.job_type,
     remote             |-> Truthy(row.remote),
     posted_date        |-> row.posted_date,
     applications_count |-> row.applications_count]

\* if title and title not in job['title'].lower(): continue
TitleCaseSensitive(job, args) ==
    LET title == Lower(ArgGet(args.title, <<>>))
    IN  ~(title # <<>> /\ ~Contains(title, job.title))
TitlePasses(job, args) ==
    LET title == Lower(ArgGet(args.title, <<>>))
    IN  ~(title # <<>> /\ ~Contains(title, Lower(job.title)))

\* if location and location not in job['location'].lower(): continue
LocationPasses(job, args) ==
    LET location == Lower(ArgGet(args.location, <<>>))
    IN  ~(location # <<>> /\ ~Contains(location, Lower(job.location)))

\* if experience and experience != job['experience']: continue
ExperiencePasses(job, args) ==
    LET experience == ArgGet(args.experience, "")
    IN  ~(experience # "" /\ Some(experience) # job.experience)

\* if remote is not None and job['remote'] != (remote.lower() == 'true'): continue
RemoteWhenTruthy(job, args) ==
    LET remote == args.remote
    IN  ~(IsSome(remote) /\ Val(remote) # <<>>
          /\ job.remote # (Lower(Val(remote)) = <<"t", "r", "u", "e">>))
RemotePasses(job, args) ==
    LET remote == args.remote
    IN  ~(IsSome(remote)
          /\ job.remote # (Lower(Val(remote)) = <<"t", "r", "u", "e">>))

\* if job_type and job_type != job['job_type']: continue
JobTypePasses(job, args) ==
    LET job_type == ArgGet(args.job_type, "")
    IN  ~(job_type # "" /\ Some(job_type) # job.job_type)

\* A job reaches jobs.append(job) (lines 135-146).
Passes(job, args) ==
    /\ TitlePasses(job, args)
    /\ LocationPasses(job, args)
    /\ ExperiencePasses(job, args)
    /\ RemotePasses(job, args)
    /\ JobTypePasses(job, args)

\* SELECT * FROM jobs ORDER BY posted_date DESC: every order of the rows that is
\* descending in posted_date; SQLite leaves the order of equal keys open.
RECURSIVE DescOrders(_)
DescOrders(S) ==
    IF S = {} THEN {<<>>}
    ELSE UNION {{<<r>> \o rest : rest \in DescOrders(S \ {r})} :
                r \in {m \in S : \A q \in S : SqlLeq(q.posted_date, m.posted_date)}}
RowidOrder(rows) == {rows}
OrderByPostedDateDesc(rows) == DescOrders({rows[i] : i \in 1..Len(rows)})

\* The list "jobs" of get_jobs for the fetched rows (lines 116-146).
FilterRows(fetched, args) ==
    LET all == [i \in 1..Len(fetched) |-> RowToJob(fetched[i])]
    IN  SelectSeq(all, LAMBDA job : Passes(job, args))

\* jsonify({'success': True, 'data': jobs, 'count': len(jobs)})
NoResp == [status |-> 0, data |-> <<>>, count |-> 0]
ListResponse(data) == [status |-> 200, data |-> data, count |-> Len(data)]
\* the bodies without a data list
StatusResponse(code) == [status |-> code, data |-> <<>>, count |-> 0]

\* ------------------------------------------------------------- requests
NoArgs == [title |-> None, location |-> None, experience |-> None,
           remote |-> None, job_type |-> None]
NoReq == [op |-> "none", id |-> 0, args |-> NoArgs]
ListReq(args) == [op |-> "list", id |-> 0, args |-> args]
ApplyReq(id) == [op |-> "apply", id |-> id, args |-> NoArgs]

\* Job ids a client asks for: the seeded ids and one id that is never stored.
ApplyIds == 1..(Len(sample_jobs) + 1)

\* Query strings of the served program's clients.
ListArgs ==
    { NoArgs,
      [NoArgs EXCEPT !.experience = Some("senior")],
      [NoArgs EXCEPT !.remote = Some(<<"f", "a", "l", "s", "e">>)] }

\* Workers inside apply_to_job; each holds a connection it still uses.
InFlight == Cardinality({t \in Threads : pc[t] \in {"update", "commit"}})

\* get_db() can be called: the model keeps at most MaxOpen connections open.
MayConnect == openConns < MaxOpen

\* Successful and running applications; the model admits MaxApply of them.
Applications ==
    LET RECURSIVE Sum(_)
        Sum(S) == IF S = {} THEN 0
                  ELSE LET i == CHOOSE x \in S : TRUE IN applied[i] + Sum(S \ {i})
    IN  Sum(DOMAIN applied) + InFlight

\* ------------------------------------------------------------- actions
Init ==
    /\ phase = "init"
    /\ tableExists = FALSE
    /\ jobs = <<>>
    /\ writer = None
    /\ txn = [t \in Threads |-> None]
    /\ pc = [t \in Threads |-> "idle"]
    /\ req = [t \in Threads |-> NoReq]
    /\ resp = [t \in Threads |-> NoResp]
    /\ applied = [i \in ApplyIds |-> 0]
    /\ openConns = 0
    /\ reseeded = FALSE

\* init_db(): CREATE TABLE IF NOT EXISTS jobs; the with block commits and leaves
\* the connection open.
InitDb ==
    /\ phase = "init"
    /\ MayConnect
    /\ tableExists' = TRUE
    /\ phase' = "seed"
    /\ openConns' = openConns + 1
    /\ UNCHANGED <<jobs, writer, txn, pc, req, resp, applied, reseeded>>

\* seed_sample_data()
SeedSampleData ==
    /\ phase = "seed"
    /\ tableExists
    /\ MayConnect
    /\ jobs' = SeedRows(jobs)
    /\ phase' = "serving"
    /\ reseeded' = (reseeded \/ jobs # <<>>)
    /\ openConns' = openConns + 1
    /\ UNCHANGED <<tableExists, writer, txn, pc, req, resp, applied>>

\* get_jobs() for the query string args: one SELECT, the filter loop, the response.
ListJobsWith(t, args) ==
    /\ phase = "serving"
    /\ pc[t] = "idle"
    /\ MayConnect
    /\ \E fetched \in OrderByPostedDateDesc(jobs) :
           resp' = [resp EXCEPT ![t] = ListResponse(FilterRows(fetched, args))]
    /\ req' = [req EXCEPT ![t] = ListReq(args)]
    /\ pc' = [pc EXCEPT ![t] = "done"]
    /\ openConns' = openConns + 1
    /\ UNCHANGED <<phase, tableExists, jobs, writer, txn, applied, reseeded>>

ListJobs(t) == \E args \in ListArgs : ListJobsWith(t, args)

\* apply_to_job(job_id) up to the existence check (lines 164-173).
ApplySelect(t) ==
    /\ phase = "serving"
    /\ pc[t] = "idle"
    /\ MayConnect
    /\ Applications < MaxApply
    /\ openConns' = openConns + 1
    /\ \E id \in ApplyIds :
        /\ req' = [req EXCEPT ![t] = ApplyReq(id)]
        /\ IF JobExists(jobs, id)
           THEN /\ pc' = [pc EXCEPT ![t] = "update"]
                /\ UNCHANGED resp
           ELSE /\ pc' = [pc EXCEPT ![t] = "done"]
                /\ resp' = [resp EXCEPT ![t] = StatusResponse(404)]
    /\ UNCHANGED <<phase, tableExists, jobs, writer, txn, applied, reseeded>>

\* SQLite grants the write lock to one connection at a time.
LockAlwaysGranted(t) == TRUE
LockGranted(t) == writer = None

\* cursor.execute("UPDATE ..."): the implicit BEGIN and the UPDATE under the
\* write lock; the change stays in the connection's transaction.
ApplyUpdate(t) ==
    /\ pc[t] = "update"
    /\ LockGranted(t)
    /\ writer' = Some(t)
    /\ txn' = [txn EXCEPT ![t] = Some(IncrementCount(jobs, req[t].id))]
    /\ pc' = [pc EXCEPT ![t] = "commit"]
    /\ UNCHANGED <<phase, tableExists, jobs, req, resp, applied, openConns, reseeded>>

\* The UPDATE gives up waiting for the lock: sqlite3.OperationalError, the with
\* block rolls back, the except branch answers 500.
ApplyBusy(t) ==
    /\ pc[t] = "update"
    /\ ~LockGranted(t)
    /\ pc' = [pc EXCEPT ![t] = "done"]
    /\ resp' = [resp EXCEPT ![t] = StatusResponse(500)]
    /\ UNCHANGED <<phase, tableExists, jobs, writer, txn, req, applied, openConns,
                   reseeded>>

\* conn.commit(), the end of the with block and the success response.
ApplyCommit(t) ==
    /\ pc[t] = "commit"
    /\ jobs' = Val(txn[t])
    /\ txn' = [txn EXCEPT ![t] = None]
    /\ writer' = None
    /\ applied' = [applied EXCEPT ![req[t].id] = @ + 1]
    /\ pc' = [pc EXCEPT ![t] = "done"]
    /\ resp' = [resp EXCEPT ![t] = StatusResponse(200)]
    /\ UNCHANGED <<phase, tableExists, req, openConns, reseeded>>

\* The server sends the response; the worker takes the next request.
Deliver(t) ==
    /\ pc[t] = "done"
    /\ pc' = [pc EXCEPT ![t] = "idle"]
    /\ req' = [req EXCEPT ![t] = NoReq]
    /\ resp' = [resp EXCEPT ![t] = NoResp]
    /\ UNCHANGED <<phase, tableExists, jobs, writer, txn, applied, openConns, reseeded>>

\* No handler calls conn.close(), and the with block of a sqlite3 connection
\* only commits or rolls back.  A connection is closed when the interpreter
\* finalizes the connection object, at a time the language leaves open.
Finalize ==
    /\ openConns > InFlight
    /\ openConns' = openConns - 1
    /\ UNCHANGED <<phase, tableExists, jobs, writer, txn, pc, req, resp, applied,
                   reseeded>>

\* The process ends (the debug reloader restarts it) and __main__ runs again on
\* the same jobs.db: open transactions are rolled back, connections closed.
Restart ==
    /\ phase = "serving"
    /\ phase' = "init"
    /\ writer' = None
    /\ txn' = [t \in Threads |-> None]
    /\ pc' = [t \in Threads |-> "idle"]
    /\ req' = [t \in Threads |-> NoReq]
    /\ resp' = [t \in Threads |-> NoResp]
    /\ openConns' = 0
    /\ UNCHANGED <<tableExists, jobs, applied, reseeded>>

Next ==
    \/ InitDb
    \/ SeedSampleData
    \/ Finalize
    \/ Restart
    \/ \E t \in Threads : ListJobs(t)
    \/ \E t \in Threads : ApplySelect(t)
    \/ \E t \in Threads : ApplyUpdate(t)
    \/ \E t \in Threads : ApplyBusy(t)
    \/ \E t \in Threads : ApplyCommit(t)
    \/ \E t \in Threads : Deliver(t)

Spec == Init /\ [][Next]_vars

\* ------------------------------------------- listing over any store content
\* Rows the table may hold when jobs.db was filled before the program started:
\* the seeded rows and three rows that differ from them in letter case, in
\* NULL and empty columns, in a date that is not zero-padded and in a date equal
\* to a seeded one.
PoolRows ==
    InsertAll(<<>>, sample_jobs) \o
    << [id |-> 4,
        title |-> <<"Q", "A", " ", "E", "N", "G", "I", "N", "E", "E", "R">>,
        company |-> "ACME",
        location |-> <<"D", "e", "l", "h", "i">>,
        salary |-> None,
        experience |-> Some("Senior"),
        job_type |-> None,
        remote |-> None,
        posted_date |-> Some(<<"2", "0", "2", "4", "-", "8", "-", "9">>),
        applications_count |-> 2],
       [id |-> 5,
        title |-> <<"D", "a", "t", "a", " ", "E", "n", "g", "i", "n", "e", "e", "r">>,
        company |-> "ACME",
        location |-> <<"n", "e", "w", " ", "d", "e", "l", "h", "i">>,
        salary |-> None,
        experience |-> Some("senior"),
        job_type |-> Some("contract"),
        remote |-> Some(1),
        posted_date |-> Some(<<"2", "0", "2", "4", "-", "0", "8", "-", "1", "2">>),
        applications_count |-> 1],
       [id |-> 6,
        title |-> <<"I", "n", "t", "e", "r", "n">>,
        company |-> "ACME",
        location |-> <<>>,
        salary |-> None,
        experience |-> None,
        job_type |-> Some(""),
        remote |-> Some(0),
        posted_date |-> None,
        applications_count |-> 0] >>

StoreContents ==
    {SelectSeq(PoolRows, LAMBDA r : r.id \in S) : S \in SUBSET RowIds(PoolRows)}

\* Query strings: every parameter missing, empty or set.
AnyArgs ==
    [title      : {None, Some(<<>>), Some(<<"E", "N", "G", "I", "N", "E", "E", "R">>),
                   Some(<<"d", "e", "v">>)},
     location   : {None, Some(<<>>), Some(<<"D", "e", "l", "h", "i">>)},
     experience : {None, Some(""), Some("senior")},
     remote     : {None, Some(<<>>), Some(<<"t", "r", "u", "e">>),
                   Some(<<"T", "r", "u", "E">>), Some(<<"f", "a", "l", "s", "e">>),
                   Some(<<"y", "e", "s">>)},
     job_type   : {None, Some(""), Some("contract")}]

InitStore ==
    /\ phase = "serving"
    /\ tableExists = TRUE
    /\ jobs \in StoreContents
    /\ writer = None
    /\ txn = [t \in Threads |-> None]
    /\ pc = [t \in Threads |-> "idle"]
    /\ req = [t \in Threads |-> NoReq]
    /\ resp = [t \in Threads |-> NoResp]
    /\ applied = [i \in ApplyIds |-> 0]
    /\ openConns = 0
    /\ reseeded = FALSE

\* One client at a time sends GET /api/jobs with any of the query strings; the
\* first worker serves it.
ListJobsAny(t) ==
    /\ \A u \in Threads : pc[u] = "idle" /\ t <= u
    /\ \E args \in AnyArgs : ListJobsWith(t, args)

NextStore ==
    \/ Finalize
    \/ \E t \in Threads : ListJobsAny(t)
    \/ \E t \in Threads : Deliver(t)

SpecStore == InitStore /\ [][NextStore]_vars

\* ======================================================= properties
Rows(rows) == {rows[i] : i \in 1..Len(rows)}
Count(rows, id) == RowOf(rows, id).applications_count
DoneList(t) == pc[t] = "done" /\ req[t].op = "list"
ReturnedIds(t) == {resp[t].data[i].id : i \in 1..Len(resp[t].data)}
TextTrue == <<"t", "r", "u", "e">>

\* a occurs in b when letter case is ignored
OccursIgnoringCase(a, b) ==
    \E k \in 0..(Len(b) - Len(a)) :
        \A i \in 1..Len(a) : LowerChar(b[k + i]) = LowerChar(a[i])

\* The response holds each stored row at most once, as it is stored.
ReturnsStoredRecords(t) ==
    /\ resp[t].status = 200
    /\ resp[t].count = Len(resp[t].data)
    /\ Cardinality(ReturnedIds(t)) = Len(resp[t].data)
    /\ \A i \in 1..Len(resp[t].data) :
        LET job == resp[t].data[i]
        IN  /\ job.id \in RowIds(jobs)
            /\ job.title = RowOf(jobs, job.id).title
            /\ job.location = RowOf(jobs, job.id).location
            /\ job.experience = RowOf(jobs, job.id).experience
            /\ job.job_type = RowOf(jobs, job.id).job_type
            /\ job.remote = (RowOf(jobs, job.id).remote = Some(1))
            /\ job.applications_count = RowOf(jobs, job.id).applications_count

\* ---- C1
\* The predicates of a query string when every parameter that is present
\* counts as supplied, the empty string included.
SatisfiesPresent(row, a) ==
    /\ IsSome(a.title) => OccursIgnoringCase(Val(a.title), row.title)
    /\ IsSome(a.location) => OccursIgnoringCase(Val(a.location), row.location)
    /\ IsSome(a.experience) => row.experience = a.experience
    /\ IsSome(a.job_type) => row.job_type = a.job_type
    /\ IsSome(a.remote) => (row.remote = Some(1)) = (Lower(Val(a.remote)) = TextTrue)

\* The same when an empty title, location, experience or job_type counts as
\* not supplied.
SatisfiesNonEmpty(row, a) ==
    /\ (IsSome(a.title) /\ Val(a.title) # <<>>)
           => OccursIgnoringCase(Val(a.title), row.title)
    /\ (IsSome(a.location) /\ Val(a.location) # <<>>)
           => OccursIgnoringCase(Val(a.location), row.location)
    /\ (IsSome(a.experience) /\ Val(a.experience) # "")
           => row.experience = a.experience
    /\ (IsSome(a.job_type) /\ Val(a.job_type) # "")
           => row.job_type = a.job_type
    /\ IsSome(a.remote) => (row.remote = Some(1)) = (Lower(Val(a.remote)) = TextTrue)

\* C1 as stated: for every store content and every combination of filters,
\* get_jobs returns exactly the stored records that satisfy the predicate of
\* every filter present in the query string (title, location: substring
\* ignoring case; experience, job_type: equality; remote: boolean equality).
C1_ExactlyTheMatchesOfPresentFilters ==
    \A t \in Threads : DoneList(t) =>
        /\ ReturnsStoredRecords(t)
        /\ ReturnedIds(t) = {r.id : r \in {x \in Rows(jobs) : SatisfiesPresent(x, req[t].args)}}

\* C1 amended: for every store content and every combination of filters,
\* get_jobs returns exactly the stored records that satisfy the predicate of
\* every filter supplied with a value, where a title, location, experience or
\* job_type given as the empty string counts as not supplied.
C1_ExactlyTheMatchesOfNonEmptyFilters ==
    \A t \in Threads : DoneList(t) =>
        /\ ReturnsStoredRecords(t)
        /\ ReturnedIds(t) = {r.id : r \in {x \in Rows(jobs) : SatisfiesNonEmpty(x, req[t].args)}}

\* Two filters with a value, a record returned and a record held back.
C1_Witness ==
    \E t \in Threads :
        /\ DoneList(t)
        /\ req[t].args.title = Some(<<"E", "N", "G", "I", "N", "E", "E", "R">>)
        /\ req[t].args.remote = Some(<<"T", "r", "u", "E">>)
        /\ req[t].args.experience = Some("")
        /\ Len(resp[t].data) >= 2
        /\ Len(resp[t].data) < Len(jobs)

\* ---- C9
\* C9: get_jobs returns its records in descending order of the stored
\* posted_date text, compared character by character (NULL last), whatever the
\* filters: of two returned records the earlier has the greater or equal
\* posted_date; "2024-8-9" comes before "2024-08-12"; the seeded rows without
\* filters come as Frontend Developer, DevOps Engineer, Senior Software Engineer.
C9_DescendingPostedDate ==
    \A t \in Threads : DoneList(t) =>
        LET data == resp[t].data
        IN  /\ \A i, j \in 1..Len(data) :
                   i < j => SqlLeq(data[j].posted_date, data[i].posted_date)
            /\ \A i, j \in 1..Len(data) :
                   (data[i].id = 2 /\ data[j].id = 4) => j < i
            /\ (jobs = InsertAll(<<>>, sample_jobs) /\ req[t].args = NoArgs)
                   => [i \in 1..Len(data) |-> data[i].id] = <<2, 3, 1>>

\* Filters are set, and the rows returned are not in the order of their ids.
C9_Witness ==
    \E t \in Threads :
        /\ DoneList(t)
        /\ req[t].args.location = Some(<<"D", "e", "l", "h", "i">>)
        /\ Len(resp[t].data) >= 4
        /\ \E i, j \in 1..Len(resp[t].data) :
               i < j /\ resp[t].data[i].id > resp[t].data[j].id

\* ---- C10
\* The query string a with the empty title, location, experience and job_type
\* left out and without the remote parameter.
WithoutEmptyAndRemote(a) ==
    [title      |-> IF a.title = Some(<<>>) THEN None ELSE a.title,
     location   |-> IF a.location = Some(<<>>) THEN None ELSE a.location,
     experience |-> IF a.experience = Some("") THEN None ELSE a.experience,
     job_type   |-> IF a.job_type = Some("") THEN None ELSE a.job_type,
     remote     |-> None]

MatchingIds(rows, a) == {r.id : r \in {x \in Rows(rows) : Passes(RowToJob(x), a)}}

\* C10: an empty title, location, experience or job_type gives the result of
\* the query without that parameter; a missing remote constrains nothing, a
\* remote equal to "true" in any letter case keeps the remote postings only,
\* and every other remote value (the empty string included) keeps the
\* non-remote postings only.
C10_EmptyIsAbsentExceptRemote ==
    \A t \in Threads : DoneList(t) =>
        LET a == req[t].args
            base == MatchingIds(jobs, WithoutEmptyAndRemote(a))
        IN  ReturnedIds(t) =
                IF ~IsSome(a.remote) THEN base
                ELSE IF Lower(Val(a.remote)) = TextTrue
                     THEN {i \in base : RowOf(jobs, i).remote = Some(1)}
                     ELSE {i \in base : RowOf(jobs, i).remote # Some(1)}

\* An empty remote, next to an empty experience, drops a record that the query
\* without the remote parameter returns.
C10_Witness ==
    \E t \in Threads :
        /\ DoneList(t)
        /\ req[t].args.remote = Some(<<>>)
        /\ req[t].args.experience = Some("")
        /\ req[t].args.job_type = Some("")
        /\ ReturnedIds(t) # {}
        /\ ReturnedIds(t) # MatchingIds(jobs, WithoutEmptyAndRemote(req[t].args))

\* ---- steps of the handlers, as pairs of states
AppliedOk(t) == pc[t] = "commit" /\ pc'[t] = "done" /\ resp'[t].status = 200
Listed(t) == pc[t] = "idle" /\ pc'[t] = "done" /\ req'[t].op = "list"
ApplyReceived(t) == pc[t] = "idle" /\ pc'[t] # "idle" /\ req'[t].op = "apply"
Seeded == phase = "seed" /\ phase' = "serving"

\* ---- C2
\* C2: a successful apply_to_job on a stored id raises that job's
\* applications_count by exactly 1; every get_jobs reports, for each job it
\* returns, the start value 0 plus the number of successful apply_to_job calls
\* on it so far, so N successful calls show as N.
C2_ApplyAddsOneAndListShowsIt ==
    [][ /\ \A t \in Threads : AppliedOk(t) =>
              /\ req[t].id \in RowIds(jobs)
              /\ Count(jobs', req[t].id) = Count(jobs, req[t].id) + 1
              /\ applied'[req[t].id] = applied[req[t].id] + 1
        /\ \A t \in Threads : Listed(t) =>
              \A i \in 1..Len(resp'[t].data) :
                  resp'[t].data[i].applications_count
                      = DefaultCount + applied[resp'[t].data[i].id]
      ]_vars

\* A listing shows a job that was applied to twice.
C2_Witness ==
    \E t \in Threads :
        /\ DoneList(t)
        /\ \E i \in 1..Len(resp[t].data) :
               /\ resp[t].data[i].applications_count = 2
               /\ applied[resp[t].data[i].id] = 2

\* ---- C3
\* C3: apply_to_job with an id that is not stored answers 404 in the same step
\* and leaves the rows of the table, their applications_count included,
\* unchanged.
C3_UnknownIdIsNotFound ==
    [][ \A t \in Threads :
            (ApplyReceived(t) /\ req'[t].id \notin RowIds(jobs)) =>
                /\ pc'[t] = "done"
                /\ resp'[t] = StatusResponse(404)
                /\ jobs' = jobs
                /\ applied' = applied
                /\ txn' = txn
      ]_vars

\* A 404 was answered after some job had been applied to.
C3_Witness ==
    \E t \in Threads :
        /\ pc[t] = "done"
        /\ req[t].op = "apply"
        /\ resp[t].status = 404
        /\ \E id \in RowIds(jobs) : Count(jobs, id) >= 1

\* ---- C4
\* C4: in every state of every interleaving of the existence checks, the
\* UPDATEs and the commits of concurrent apply_to_job requests, each job's
\* applications_count is its start value 0 plus the number of requests on it
\* that reported success: no increment is lost.
C4_NoLostIncrement ==
    \A id \in RowIds(jobs) : Count(jobs, id) = DefaultCount + applied[id]

\* Two requests on one id are interleaved: one has run its UPDATE and not yet
\* committed, the other has passed the existence check and waits for the lock.
C4_Witness ==
    \E t, u \in Threads :
        /\ t # u
        /\ pc[t] = "commit"
        /\ pc[u] = "update"
        /\ req[t].id = req[u].id
        /\ writer = Some(t)

\* ---- C5
\* C5: the table never holds more than three rows; seed_sample_data on the
\* empty table leaves exactly the three fixed records with ids 1, 2, 3 and
\* applications_count 0, and on a table that is not empty it changes nothing.
C5_SeedIdempotent ==
    [][ /\ Len(jobs') <= Len(sample_jobs)
        /\ Seeded =>
              IF jobs = <<>>
              THEN /\ Len(jobs') = Len(sample_jobs)
                   /\ \A i \in 1..Len(sample_jobs) :
                          /\ jobs'[i].id = i
                          /\ jobs'[i].title = sample_jobs[i].title
                          /\ jobs'[i].company = sample_jobs[i].company
                          /\ jobs'[i].location = sample_jobs[i].location
                          /\ jobs'[i].experience = sample_jobs[i].experience
                          /\ jobs'[i].job_type = sample_jobs[i].job_type
                          /\ jobs'[i].remote = sample_jobs[i].remote
                          /\ jobs'[i].posted_date = sample_jobs[i].posted_date
                          /\ jobs'[i].applications_count = 0
              ELSE jobs' = jobs
      ]_vars

\* The seeder has run a second time, on rows whose counts had changed.
C5_Witness ==
    /\ reseeded
    /\ phase = "serving"
    /\ Len(jobs) = Len(sample_jobs)
    /\ \E id \in RowIds(jobs) : Count(jobs, id) >= 1

\* ---- C6
\* C6: in every state in which no operation is in progress, no connection
\* opened by a finished operation is still open.
C6_ConnectionsReleased ==
    (\A t \in Threads : pc[t] \in {"idle", "done"}) => openConns = 0

\* ---- C7
\* C7: from one state to the next no stored job disappears and no
\* applications_count decreases; a step that changes a job's count is a
\* successful apply_to_job on that job and raises it by exactly 1, so init_db,
\* seed_sample_data and get_jobs change no count.
C7_CountOnlyGrowsByApply ==
    [][ \A id \in RowIds(jobs) :
            /\ id \in RowIds(jobs')
            /\ Count(jobs', id) >= Count(jobs, id)
            /\ Count(jobs', id) # Count(jobs, id) =>
                   /\ Count(jobs', id) = Count(jobs, id) + 1
                   /\ \E t \in Threads : AppliedOk(t) /\ req[t].id = id
      ]_vars

\* A job was applied to while another kept its count, and the program has
\* been restarted since.
C7_Witness ==
    /\ reseeded
    /\ phase = "serving"
    /\ \E a, b \in RowIds(jobs) : Count(jobs, a) >= 2 /\ Count(jobs, b) = 0

\* ---- C8
\* C8: on the seeded table, whatever was applied to since, get_jobs with only
\* experience=senior returns exactly the Senior Software Engineer record and
\* get_jobs with only remote=false returns exactly the Frontend Developer record.
C8_SeededExamples ==
    \A t \in Threads : DoneList(t) =>
        /\ req[t].args = [NoArgs EXCEPT !.experience = Some("senior")] =>
               /\ resp[t].count = 1
               /\ Len(resp[t].data) = 1
               /\ resp[t].data[1].title = sample_jobs[1].title
        /\ req[t].args = [NoArgs EXCEPT !.remote = Some(<<"f", "a", "l", "s", "e">>)] =>
               /\ resp[t].count = 1
               /\ Len(resp[t].data) = 1
               /\ resp[t].data[1].title = sample_jobs[2].title

\* Both queries have been answered, after an application.
C8_Witness ==
    \E t, u \in Threads :
        /\ DoneList(t)
        /\ DoneList(u)
        /\ req[t].args.experience = Some("senior")
        /\ req[u].args.remote = Some(<<"f", "a", "l", "s", "e">>)
        /\ \E id \in RowIds(jobs) : Count(jobs, id) >= 1

====
